---- MODULE Spec2Model ----
(***************************************************************************)
(* cocogitto: the commit parser, the commit type taxonomy and the ordering *)
(* of commits (src/src/commit.rs), and the `bump` subcommand of the cog    *)
(* binary (src/src/bin/cog.rs).                                            *)
(*                                                                         *)
(* A Rust string that the code splits, slices or compares is a sequence of *)
(* one-character strings (ASCII only, so byte offsets and character        *)
(* offsets coincide); a string that is only passed along is a TLA+ string. *)
(* Option<T> is [some |-> FALSE] or [some |-> TRUE, val |-> x].  A panic   *)
(* is a control position of its own: the process has aborted.              *)
(***************************************************************************)
EXTENDS Integers, Sequences, FiniteSets

VARIABLES
    pc,                             \* where the modelled call stands
    short_id, message, author_name, \* the git commit handed to the parser
    result,                         \* what Commit::from_git_commit gave
    key, commit_type, title,        \* CommitType::from, get_markdown_title
    lhs, rhs, ordering,             \* Ord / PartialOrd for Commit
    matches, increment,             \* the bump subcommand of cog
    commits, scanned, severity      \* the resolution of an Auto increment

vars ==
    <<pc, short_id, message, author_name, result, key, commit_type, title,
      lhs, rhs, ordering, matches, increment, commits, scanned, severity>>

None == [some |-> FALSE]
Some(x) == [some |-> TRUE, val |-> x]

(***************************************************************************)
(* The keys of the closed set of commit types, and the other literals of   *)
(* the parser.                                                             *)
(***************************************************************************)
feat == <<"f", "e", "a", "t">>
fix == <<"f", "i", "x">>
chore == <<"c", "h", "o", "r", "e">>
revert == <<"r", "e", "v", "e", "r", "t">>
perf == <<"p", "e", "r", "f">>
docs == <<"d", "o", "c", "s">>
style == <<"s", "t", "y", "l", "e">>
refactor == <<"r", "e", "f", "a", "c", "t", "o", "r">>
test == <<"t", "e", "s", "t">>
build == <<"b", "u", "i", "l", "d">>
ci == <<"c", "i">>

ColonSpace == <<":", " ">>
OpenParen == <<"(">>
Newline == "\n"

(***************************************************************************)
(* enum CommitType.                                                        *)
(***************************************************************************)
Feature == [variant |-> "Feature"]
BugFix == [variant |-> "BugFix"]
Chore == [variant |-> "Chore"]
Revert == [variant |-> "Revert"]
Performances == [variant |-> "Performances"]
Documentation == [variant |-> "Documentation"]
Style == [variant |-> "Style"]
Refactoring == [variant |-> "Refactoring"]
Test == [variant |-> "Test"]
Build == [variant |-> "Build"]
Ci == [variant |-> "Ci"]
Custom(k, t) == [variant |-> "Custom", key |-> k, title |-> t]

(* The panic of a call that does not return. *)
Panic(line) == [tag |-> "panic", at |-> line]
IsPanic(v) == "tag" \in DOMAIN v /\ v.tag = "panic"

(***************************************************************************)
(* impl From<&str> for CommitType: the eleven keys, and a panic for every  *)
(* other string.                                                           *)
(***************************************************************************)
CommitTypeFrom(k) ==
    CASE k = feat -> Feature
      [] k = fix -> BugFix
      [] k = chore -> Chore
      [] k = revert -> Revert
      [] k = perf -> Performances
      [] k = docs -> Documentation
      [] k = style -> Style
      [] k = refactor -> Refactoring
      [] k = test -> Test
      [] k = build -> Build
      [] k = ci -> Ci
      [] OTHER -> Panic(106)

(* get_markdown_title with the heading of Test left in the singular. *)
GetMarkdownTitleSingular(self) ==
    CASE self = Feature -> "Feature"
      [] self = BugFix -> "Bug Fixes"
      [] self = Chore -> "Miscellaneous Chores"
      [] self = Revert -> "Revert"
      [] self = Performances -> "Performance Improvements"
      [] self = Documentation -> "Documentation"
      [] self = Style -> "Style"
      [] self = Refactoring -> "Refactoring"
      [] self = Test -> "Test"
      [] self = Build -> "Build System"
      [] self = Ci -> "Continuous Integration"
      [] self.variant = "Custom" -> self.title

(***************************************************************************)
(* CommitType::get_markdown_title.                                         *)
(***************************************************************************)
GetMarkdownTitle(self) ==
    CASE self = Feature -> "Feature"
      [] self = BugFix -> "Bug Fixes"
      [] self = Chore -> "Miscellaneous Chores"
      [] self = Revert -> "Revert"
      [] self = Performances -> "Performance Improvements"
      [] self = Documentation -> "Documentation"
      [] self = Style -> "Style"
      [] self = Refactoring -> "Refactoring"
      [] self = Test -> "Tests"
      [] self = Build -> "Build System"
      [] self = Ci -> "Continuous Integration"
      [] self.variant = "Custom" -> self.title

(***************************************************************************)
(* str::split(pat): the pieces between the non-overlapping occurrences of  *)
(* pat, found left to right; n occurrences give n + 1 pieces.              *)
(***************************************************************************)
MatchesAt(s, pat, i) ==
    /\ i + Len(pat) - 1 <= Len(s)
    /\ \A j \in 1..Len(pat) : s[i + j - 1] = pat[j]

RECURSIVE SplitFrom(_, _, _, _)
SplitFrom(s, pat, i, cur) ==
    IF i > Len(s) THEN <<cur>>
    ELSE IF MatchesAt(s, pat, i)
         THEN <<cur>> \o SplitFrom(s, pat, i + Len(pat), <<>>)
         ELSE SplitFrom(s, pat, i + 1, Append(cur, s[i]))

Split(s, pat) == SplitFrom(s, pat, 1, <<>>)

(* str::replace('\n', "") *)
IsNotNewline(c) == c # Newline
RemoveNewlines(s) == SelectSeq(s, IsNotNewline)

(***************************************************************************)
(* Commit::from_git_commit.  The statements run in source order, so the    *)
(* first failing one decides where the panic is raised:                    *)
(*   line 28  commit.message().unwrap()      message is not UTF-8          *)
(*   line 32  split[1]                       no ": " in the message        *)
(*   line 38  CommitType::from(left_part[0]) unknown type key (line 106)   *)
(*   line 41  scope[0..scope.len() - 1]      nothing after the "("         *)
(* The print! of line 29 writes to the terminal and changes no state.      *)
(***************************************************************************)
ScopeOf(left_part) ==
    IF Len(left_part) < 2 THEN None
    ELSE Some(SubSeq(left_part[2], 1, Len(left_part[2]) - 1))

FromGitCommit(id, msg, name) ==
    IF ~msg.some THEN Panic(28)
    ELSE
      LET author == IF name.some THEN name.val ELSE ""
          split == Split(msg.val, ColonSpace)
      IN  IF Len(split) < 2 THEN Panic(32)
          ELSE
            LET description == RemoveNewlines(split[2])
                left_part == Split(split[1], OpenParen)
                type == CommitTypeFrom(left_part[1])
            IN  IF IsPanic(type) THEN type
                ELSE IF Len(left_part) >= 2 /\ Len(left_part[2]) = 0
                     THEN Panic(41)
                     ELSE [tag |-> "Commit",
                           shorthand |-> id,
                           commit_type |-> type,
                           scope |-> ScopeOf(left_part),
                           description |-> description,
                           author |-> author]

(***************************************************************************)
(* impl Ord for Commit and impl PartialOrd for Commit: the comparison of   *)
(* the two scopes, as Option<String> orders them (None before Some, two    *)
(* strings byte by byte).                                                  *)
(***************************************************************************)
Byte(c) ==
    CASE c = ")" -> 41
      [] c = "B" -> 66
      [] c = "a" -> 97
      [] c = "b" -> 98
      [] c = "d" -> 100

RECURSIVE StrCmp(_, _)
StrCmp(a, b) ==
    IF a = <<>> /\ b = <<>> THEN "Equal"
    ELSE IF a = <<>> THEN "Less"
    ELSE IF b = <<>> THEN "Greater"
    ELSE IF Byte(Head(a)) < Byte(Head(b)) THEN "Less"
    ELSE IF Byte(Head(a)) > Byte(Head(b)) THEN "Greater"
    ELSE StrCmp(Tail(a), Tail(b))

OptionCmp(x, y) ==
    IF ~x.some /\ ~y.some THEN "Equal"
    ELSE IF ~x.some THEN "Less"
    ELSE IF ~y.some THEN "Greater"
    ELSE StrCmp(x.val, y.val)

(* cmp with the description as a tie-break between equal scopes. *)
CommitCmpThenDescription(self, other) ==
    IF OptionCmp(self.scope, other.scope) # "Equal"
    THEN OptionCmp(self.scope, other.scope)
    ELSE IF self.description = other.description THEN "Equal"
    ELSE IF self.description = <<"x">> THEN "Less" ELSE "Greater"

CommitCmp(self, other) == OptionCmp(self.scope, other.scope)

CommitPartialCmp(self, other) == Some(OptionCmp(self.scope, other.scope))

(***************************************************************************)
(* The bump subcommand of cog.  The five options of bump_command each      *)
(* carry required_unless_one(the other four): clap's get_matches ends the  *)
(* process with a usage error when an option is absent and none of the     *)
(* options of its list is present.  `version` takes a value; the others    *)
(* are flags.                                                              *)
(***************************************************************************)
BumpArgs == {"version", "auto", "major", "patch", "minor"}

RequiredUnlessOne(arg) ==
    CASE arg = "version" -> {"auto", "major", "patch", "minor"}
      [] arg = "auto" -> {"version", "major", "patch", "minor"}
      [] arg = "major" -> {"version", "auto", "patch", "minor"}
      [] arg = "patch" -> {"version", "auto", "major", "minor"}
      [] arg = "minor" -> {"version", "auto", "patch", "major"}

ValueOf(m, name) == IF name = "version" THEN m.version ELSE None

IsPresent(m, name) ==
    IF name = "version" THEN m.version.some ELSE name \in m.flags

GetMatchesAccepts(m) ==
    \A arg \in BumpArgs :
        IsPresent(m, arg) \/ \E other \in RequiredUnlessOne(arg) : IsPresent(m, other)

(* enum VersionIncrement, as the BUMP branch builds it. *)
Manual(v) == [increment |-> "Manual", version |-> v]
Auto == [increment |-> "Auto"]
Major == [increment |-> "Major"]
Minor == [increment |-> "Minor"]
Patch == [increment |-> "Patch"]

(* The chain with the minor branch tested before the patch branch. *)
BumpIncrementMinorFirst(m) ==
    IF ValueOf(m, "version").some THEN Manual(ValueOf(m, "version").val)
    ELSE IF IsPresent(m, "auto") THEN Auto
    ELSE IF IsPresent(m, "major") THEN Major
    ELSE IF IsPresent(m, "minor") THEN Minor
    ELSE IF IsPresent(m, "patch") THEN Patch
    ELSE Panic(213)

(* The if / else-if chain of the BUMP branch; its last else is unreachable!(). *)
BumpIncrement(m) ==
    IF ValueOf(m, "version").some THEN Manual(ValueOf(m, "version").val)
    ELSE IF IsPresent(m, "auto") THEN Auto
    ELSE IF IsPresent(m, "major") THEN Major
    ELSE IF IsPresent(m, "patch") THEN Patch
    ELSE IF IsPresent(m, "minor") THEN Minor
    ELSE Panic(213)

(***************************************************************************)
(* The resolution of an Auto increment over the classified commits.  The   *)
(* BUMP branch hands the increment to CocoGitto::create_version of the     *)
(* library crate; the scan below follows section 4.4 of the design         *)
(* specification.  A classified commit is [commit_type, breaking]; the     *)
(* scan keeps the highest severity met so far.                             *)
(***************************************************************************)
MaxCommits == 3

SeverityOf(c) ==
    IF c.breaking THEN 3
    ELSE IF c.commit_type = Feature THEN 2
    ELSE IF c.commit_type \in {BugFix, Performances} THEN 1
    ELSE 0

(* The scan keeping the severity of the last applicable commit. *)
EscalateLast(sev, c) == IF SeverityOf(c) > 0 THEN SeverityOf(c) ELSE sev

Escalate(sev, c) == IF SeverityOf(c) > sev THEN SeverityOf(c) ELSE sev

IncrementOfSeverity(sev) ==
    CASE sev = 3 -> Major
      [] sev = 2 -> Minor
      [] sev = 1 -> Patch
      [] OTHER -> [error |-> "NoApplicableCommits"]

RECURSIVE ScanFrom(_, _, _)
ScanFrom(cs, i, sev) ==
    IF i > Len(cs) THEN sev ELSE ScanFrom(cs, i + 1, Escalate(sev, cs[i]))

ResolveAuto(cs) == IncrementOfSeverity(ScanFrom(cs, 1, 0))

(***************************************************************************)
(* The git commits handed to the parser.  A message is a type segment, a   *)
(* scope segment, an optional "!", a separator, a description and the      *)
(* lines after the header, each drawn from a set that holds well-formed    *)
(* and malformed pieces; the examples of the documentation are added as    *)
(* they stand.  commit.message() is None for a message that is not UTF-8,  *)
(* and commit.author().name() is None for a name that is not UTF-8.        *)
(***************************************************************************)
Keys == {feat, fix, chore, revert, perf, docs, style, refactor, test, build, ci}

UnknownKeys == {<<>>, <<"w", "i", "p">>, <<"u", "p", "d", "a", "t", "e", " ", "s", "t", "u", "f", "f">>}

TypeSegs == Keys \cup UnknownKeys

ScopeTexts == {<<"a">>, <<"d", "b">>}

ScopeSegs ==
    {<<>>, <<"(">>, <<"(", ")">>, <<"(", "a">>,
     <<"(", "a", "(", "b", ")", ")">>,
     <<"(", "a", ")", "b", ")">>}
        \cup {<<"(">> \o s \o <<")">> : s \in ScopeTexts}

Bangs == {<<>>, <<"!">>}

Seps == {ColonSpace, <<":">>, <<>>}

DescTexts ==
    {<<"x">>,
     <<"a", "d", "d", " ", "f", "o", "o">>,
     <<"a", "d", "d", " ", "f", "o", "o", ":", " ", "b", "a", "r">>}

DescSegs == DescTexts \cup {<<>>}

Rests ==
    {<<>>, <<Newline>>,
     <<"\n", "\n", "b", "o", "d", "y">>,
     <<"\n", "\n", "B", "R", "E", "A", "K", "I", "N", "G", " ", "C", "H", "A", "N", "G", "E", ":", " ", "x">>}

ExampleDatabase ==
    <<"f", "e", "a", "t", "(", "d", "a", "t", "a", "b", "a", "s", "e", ")", ":", " ", "a", "d", "d", " ", "p", "o", "s", "t", "g", "r", "e", "s", "q", "l", " ", "d", "r", "i", "v", "e", "r">>

ExampleLegacy ==
    <<"f", "i", "x", "!", ":", " ", "d", "r", "o", "p", " ", "l", "e", "g", "a", "c", "y", " ", "e", "n", "d", "p", "o", "i", "n", "t">>

Messages ==
    {t \o s \o b \o p \o d \o r :
        t \in TypeSegs, s \in ScopeSegs, b \in Bangs,
        p \in Seps, d \in DescSegs, r \in Rests}
        \cup {ExampleDatabase, ExampleLegacy}

ShortIds == {"a1b2c3d"}

AuthorNames == {None, Some("bob")}

ParserVars == <<short_id, message, author_name, result>>
TaxonomyVars == <<key, commit_type, title>>
OrdVars == <<lhs, rhs, ordering>>
BumpVars == <<matches, increment>>
AutoVars == <<commits, scanned, severity>>

ParserIdle ==
    short_id = "" /\ message = None /\ author_name = None /\ result = [tag |-> "none"]
TaxonomyIdle == key = <<>> /\ commit_type = [variant |-> "none"] /\ title = ""
OrdIdle == lhs = None /\ rhs = None /\ ordering = None
BumpIdle == matches = None /\ increment = None
AutoIdle == commits = <<>> /\ scanned = 0 /\ severity = 0

(***************************************************************************)
(* The parser as a state machine: a commit read from the repository is     *)
(* parsed once, and the call either returns a Commit or panics.            *)
(***************************************************************************)
Init ==
    /\ pc = "raw"
    /\ short_id \in ShortIds
    /\ message \in {None} \cup {Some(m) : m \in Messages}
    /\ author_name \in AuthorNames
    /\ result = [tag |-> "none"]
    /\ TaxonomyIdle /\ OrdIdle /\ BumpIdle /\ AutoIdle

ParseCommit ==
    /\ pc = "raw"
    /\ result' = FromGitCommit(short_id, message, author_name)
    /\ pc' = IF IsPanic(result') THEN "panicked" ELSE "parsed"
    /\ UNCHANGED <<short_id, message, author_name>>
    /\ UNCHANGED <<TaxonomyVars, OrdVars, BumpVars, AutoVars>>

Next == ParseCommit

Spec == Init /\ [][Next]_vars

(***************************************************************************)
(* The taxonomy: a key is classified by CommitType::from, a Custom type    *)
(* comes with its key and title, and get_markdown_title gives the heading  *)
(* of a commit type.                                                       *)
(***************************************************************************)
KeyInputs ==
    Keys \cup UnknownKeys
        \cup {<<"F", "e", "a", "t">>, <<"f", "i", "x", "!">>, <<"f", "e", "a", "t", "u", "r", "e">>}

CustomKeys == {"wip", "deps", "security", "release", "i18n", "ux"}

CustomTitles ==
    {"Work in progress", "Dependencies", "Security", "Releases",
     "Translations", "Feature"}

TaxonomyInit ==
    /\ \/ /\ pc = "key"
          /\ key \in KeyInputs
          /\ commit_type = [variant |-> "none"]
       \/ /\ pc = "typed"
          /\ key = <<>>
          /\ commit_type \in {Custom(k, t) : k \in CustomKeys, t \in CustomTitles}
    /\ title = ""
    /\ ParserIdle /\ OrdIdle /\ BumpIdle /\ AutoIdle

From ==
    /\ pc = "key"
    /\ commit_type' = CommitTypeFrom(key)
    /\ pc' = IF IsPanic(commit_type') THEN "panicked" ELSE "typed"
    /\ UNCHANGED <<key, title>>
    /\ UNCHANGED <<ParserVars, OrdVars, BumpVars, AutoVars>>

MarkdownTitle ==
    /\ pc = "typed"
    /\ title' = GetMarkdownTitle(commit_type)
    /\ pc' = "titled"
    /\ UNCHANGED <<key, commit_type>>
    /\ UNCHANGED <<ParserVars, OrdVars, BumpVars, AutoVars>>

TaxonomyNext == From \/ MarkdownTitle

SpecTaxonomy == TaxonomyInit /\ [][TaxonomyNext]_vars

(***************************************************************************)
(* The order of commits: two commits are compared by cmp or partial_cmp.   *)
(***************************************************************************)
ScopeValues ==
    {None, Some(<<>>), Some(<<"a">>), Some(<<"a", "b">>), Some(<<"b">>),
     Some(<<"B">>), Some(<<"a", ")">>), Some(<<"d", "b">>)}

OrdCommits ==
    [tag : {"Commit"},
     shorthand : {"a1b2c3d", "e4f5a6b"},
     commit_type : {Feature, BugFix},
     scope : ScopeValues,
     description : {<<"x">>, <<"y">>},
     author : {"bob", "eve"}]

OrdInit ==
    /\ pc = "compare"
    /\ lhs \in OrdCommits
    /\ rhs \in OrdCommits
    /\ ordering = None
    /\ ParserIdle /\ TaxonomyIdle /\ BumpIdle /\ AutoIdle

Cmp ==
    /\ pc = "compare"
    /\ ordering' = CommitCmp(lhs, rhs)
    /\ pc' = "cmp"
    /\ UNCHANGED <<lhs, rhs>>
    /\ UNCHANGED <<ParserVars, TaxonomyVars, BumpVars, AutoVars>>

PartialCmp ==
    /\ pc = "compare"
    /\ ordering' = CommitPartialCmp(lhs, rhs)
    /\ pc' = "partial_cmp"
    /\ UNCHANGED <<lhs, rhs>>
    /\ UNCHANGED <<ParserVars, TaxonomyVars, BumpVars, AutoVars>>

OrdNext == Cmp \/ PartialCmp

SpecOrd == OrdInit /\ [][OrdNext]_vars

(***************************************************************************)
(* cog bump: the command line is matched, then the BUMP branch chooses     *)
(* the increment it hands to create_version.                               *)
(***************************************************************************)
VersionValues == {"", "1.0.0", "2.1.0", "next"}

BumpInit ==
    /\ pc = "args"
    /\ matches \in [version : {None} \cup {Some(v) : v \in VersionValues},
                    flags : SUBSET (BumpArgs \ {"version"})]
    /\ increment = None
    /\ ParserIdle /\ TaxonomyIdle /\ OrdIdle /\ AutoIdle

GetMatches ==
    /\ pc = "args"
    /\ pc' = IF GetMatchesAccepts(matches) THEN "bump" ELSE "usage_error"
    /\ UNCHANGED <<matches, increment>>
    /\ UNCHANGED <<ParserVars, TaxonomyVars, OrdVars, AutoVars>>

BumpBranch ==
    /\ pc = "bump"
    /\ increment' = BumpIncrement(matches)
    /\ pc' = IF IsPanic(increment') THEN "panicked" ELSE "create_version"
    /\ UNCHANGED matches
    /\ UNCHANGED <<ParserVars, TaxonomyVars, OrdVars, AutoVars>>

BumpNext == GetMatches \/ BumpBranch

SpecBump == BumpInit /\ [][BumpNext]_vars

(***************************************************************************)
(* The Auto increment: the commits are scanned one at a time, then the     *)
(* severity reached decides the increment.                                 *)
(***************************************************************************)
RECURSIVE SeqsUpTo(_, _)
SeqsUpTo(S, n) ==
    IF n = 0 THEN {<<>>}
    ELSE LET shorter == SeqsUpTo(S, n - 1)
         IN  shorter \cup {Append(s, x) : s \in shorter, x \in S}

ClassifiedCommits ==
    [commit_type : {Feature, BugFix, Performances, Chore, Documentation},
     breaking : BOOLEAN]

AutoInit ==
    /\ pc = "scan"
    /\ commits \in SeqsUpTo(ClassifiedCommits, MaxCommits)
    /\ scanned = 0
    /\ severity = 0
    /\ matches = None
    /\ increment = Auto
    /\ ParserIdle /\ TaxonomyIdle /\ OrdIdle

ScanCommit ==
    /\ pc = "scan"
    /\ scanned < Len(commits)
    /\ severity' = Escalate(severity, commits[scanned + 1])
    /\ scanned' = scanned + 1
    /\ UNCHANGED <<pc, commits, matches, increment>>
    /\ UNCHANGED <<ParserVars, TaxonomyVars, OrdVars>>

Resolve ==
    /\ pc = "scan"
    /\ scanned = Len(commits)
    /\ increment' = IncrementOfSeverity(severity)
    /\ pc' = "resolved"
    /\ UNCHANGED <<commits, scanned, severity, matches>>
    /\ UNCHANGED <<ParserVars, TaxonomyVars, OrdVars>>

AutoNext == ScanCommit \/ Resolve

SpecAuto == AutoInit /\ [][AutoNext]_vars

(***************************************************************************)
(* The documented taxonomy: key, variant, changelog heading.               *)
(***************************************************************************)
DocumentedTypes ==
    {<<feat, "Feature", "Feature">>,
     <<fix, "BugFix", "Bug Fixes">>,
     <<chore, "Chore", "Miscellaneous Chores">>,
     <<revert, "Revert", "Revert">>,
     <<perf, "Performances", "Performance Improvements">>,
     <<docs, "Documentation", "Documentation">>,
     <<style, "Style", "Style">>,
     <<refactor, "Refactoring", "Refactoring">>,
     <<test, "Test", "Tests">>,
     <<build, "Build", "Build System">>,
     <<ci, "Ci", "Continuous Integration">>}

DocumentedVariant(k) ==
    [variant |-> (CHOOSE row \in DocumentedTypes : row[1] = k)[2]]

HasSeparator(m) == \E i \in 1..Len(m) : MatchesAt(m, ColonSpace, i)

(* The first line of a message. *)
HeaderOf(m) ==
    IF \E i \in 1..Len(m) : m[i] = Newline
    THEN SubSeq(m, 1, (CHOOSE i \in 1..Len(m) :
                          m[i] = Newline /\ \A j \in 1..(i - 1) : m[j] # Newline) - 1)
    ELSE m

FirstSeparator(h) ==
    CHOOSE i \in 1..Len(h) :
        MatchesAt(h, ColonSpace, i) /\ \A j \in 1..(i - 1) : ~MatchesAt(h, ColonSpace, j)

IsCommit(r, type, scope, description) ==
    /\ r.tag = "Commit"
    /\ r.commit_type = type
    /\ r.scope = scope
    /\ r.description = description

(* Lexicographic order of two strings by their bytes, stated position by
   position. *)
LexLess(a, b) ==
    \E i \in 1..(Len(a) + 1) :
        /\ i <= Len(b)
        /\ \A j \in 1..(i - 1) : a[j] = b[j]
        /\ i = Len(a) + 1 \/ Byte(a[i]) < Byte(b[i])

ScopeOrder(l, r, o) ==
    /\ ~l.scope.some /\ r.scope.some => o = "Less"
    /\ l.scope.some /\ ~r.scope.some => o = "Greater"
    /\ l.scope.some /\ r.scope.some =>
          /\ o = "Less" <=> LexLess(l.scope.val, r.scope.val)
          /\ o = "Greater" <=> LexLess(r.scope.val, l.scope.val)
    /\ l.scope = r.scope => o = "Equal"

(* The highest severity present in a set of commits, and the reorderings
   of a sequence. *)
HighestSeverity(cs) ==
    IF \E i \in 1..Len(cs) : cs[i].breaking THEN Major
    ELSE IF \E i \in 1..Len(cs) : cs[i].commit_type = Feature THEN Minor
    ELSE IF \E i \in 1..Len(cs) : cs[i].commit_type \in {BugFix, Performances} THEN Patch
    ELSE [error |-> "NoApplicableCommits"]

IndexPermutations(n) ==
    {p \in [1..n -> 1..n] : \A i, j \in 1..n : p[i] = p[j] => i = j}

Permuted(cs, p) == [i \in 1..Len(cs) |-> cs[p[i]]]

(***************************************************************************)
(* C1: parsing never aborts: once the parser has run on a message, it has  *)
(* returned a Commit or a ParseError value, and has not panicked.          *)
(***************************************************************************)
C1_ParserNeverAborts ==
    pc # "raw" /\ message.some =>
        pc # "panicked" /\ result.tag \in {"Commit", "ParseError"}

(***************************************************************************)
(* C2: a message whose header is `type(scope): description`, with one of   *)
(* the eleven keys, a non-empty scope and a non-empty description, parses  *)
(* to the variant of the key, Some(scope) and exactly the description;     *)
(* `type: description` parses with scope None.                             *)
(***************************************************************************)
C2_HeaderFieldsParsed ==
    pc # "raw" =>
        /\ \A k \in Keys, d \in DescTexts, r \in Rests :
              /\ \A s \in ScopeTexts :
                    message = Some(k \o <<"(">> \o s \o <<")">> \o ColonSpace \o d \o r)
                        => IsCommit(result, DocumentedVariant(k), Some(s), d)
              /\ message = Some(k \o ColonSpace \o d \o r)
                    => IsCommit(result, DocumentedVariant(k), None, d)
        /\ message = Some(ExampleDatabase)
              => IsCommit(result, Feature,
                          Some(<<"d", "a", "t", "a", "b", "a", "s", "e">>),
                          <<"a", "d", "d", " ", "p", "o", "s", "t", "g", "r", "e", "s", "q", "l", " ", "d", "r", "i", "v", "e", "r">>)

(***************************************************************************)
(* C3: a message with no ": " separator is rejected with the error value   *)
(* MalformedHeader.                                                        *)
(***************************************************************************)
C3_NoSeparatorIsMalformedHeader ==
    pc # "raw" /\ message.some /\ ~HasSeparator(message.val)
        => result = [tag |-> "ParseError", error |-> "MalformedHeader"]

(***************************************************************************)
(* C4: a header with a `!` right before the `:`, with or without a scope,  *)
(* parses to the type of the key before the `!` with breaking = true,      *)
(* whatever follows the header.                                            *)
(***************************************************************************)
C4_BangMarksBreaking ==
    pc # "raw" =>
        \A k \in Keys, d \in DescTexts, r \in Rests,
           s \in {<<>>} \cup {<<"(">> \o x \o <<")">> : x \in ScopeTexts} :
            message = Some(k \o s \o <<"!">> \o ColonSpace \o d \o r)
                => /\ result.tag = "Commit"
                   /\ result.commit_type = DocumentedVariant(k)
                   /\ "breaking" \in DOMAIN result
                   /\ result.breaking = TRUE

(***************************************************************************)
(* C5: every Commit the parser produces has a non-empty description and,   *)
(* when it has a scope, a non-empty scope with no parenthesis in it.       *)
(***************************************************************************)
C5_CommitInvariant ==
    pc = "parsed" =>
        /\ result.description # <<>>
        /\ result.scope.some =>
              /\ result.scope.val # <<>>
              /\ \A i \in 1..Len(result.scope.val) :
                    result.scope.val[i] \notin {"(", ")"}

(***************************************************************************)
(* C6: each of the eleven keys is classified to its own variant, the title *)
(* of each variant is its documented heading, and the title of a Custom    *)
(* type is the title it carries.                                           *)
(***************************************************************************)
C6_TaxonomyRoundTrip ==
    /\ \A row \in DocumentedTypes :
          key = row[1] =>
              /\ pc # "panicked"
              /\ pc \in {"typed", "titled"} => commit_type = [variant |-> row[2]]
              /\ pc = "titled" => title = row[3]
    /\ pc \in {"typed", "titled"} =>
          \A k \in Keys : k # key => CommitTypeFrom(k) # commit_type
    /\ pc = "titled" /\ commit_type.variant = "Custom" => title = commit_type.title

C6_Witness ==
    pc = "titled" /\ key = test /\ commit_type = Test /\ title = "Tests"

(***************************************************************************)
(* C7: the order of commits compares the scope only: no scope sorts before *)
(* any scope, two scopes sort as their strings do, and commits with the    *)
(* same scope are equal whatever their other fields.                       *)
(***************************************************************************)
C7_OrderIsByScopeOnly ==
    /\ pc = "cmp" => ScopeOrder(lhs, rhs, ordering)
    /\ pc = "partial_cmp" => ordering.some /\ ScopeOrder(lhs, rhs, ordering.val)

C7_Witness ==
    /\ pc = "cmp"
    /\ lhs.scope = Some(<<"d", "b">>)
    /\ rhs.scope = lhs.scope
    /\ lhs.commit_type # rhs.commit_type
    /\ lhs.description # rhs.description
    /\ lhs.author # rhs.author
    /\ lhs.shorthand # rhs.shorthand
    /\ ordering = "Equal"

(***************************************************************************)
(* C8: an Auto increment resolves to the highest severity present (Major   *)
(* for a breaking commit, else Minor for a Feature, else Patch for a       *)
(* BugFix or Performances, else NoApplicableCommits), and to the same      *)
(* result for every permutation of the commits.                            *)
(***************************************************************************)
C8_AutoIsHighestSeverity ==
    pc = "resolved" =>
        /\ increment = HighestSeverity(commits)
        /\ \A p \in IndexPermutations(Len(commits)) :
              ResolveAuto(Permuted(commits, p)) = increment

C8_Witness ==
    /\ pc = "resolved"
    /\ commits = <<[commit_type |-> Chore, breaking |-> TRUE],
                   [commit_type |-> Feature, breaking |-> FALSE]>>
    /\ increment = Major

(***************************************************************************)
(* C9: the description is the whole rest of the first line after the first *)
(* ": " of that line, and nothing of the later lines.                      *)
(***************************************************************************)
C9_DescriptionIsRestOfHeader ==
    pc = "parsed" /\ HasSeparator(HeaderOf(message.val)) =>
        LET h == HeaderOf(message.val)
        IN  result.description = SubSeq(h, FirstSeparator(h) + 2, Len(h))

(***************************************************************************)
(* C10: every command line the argument parser accepts has at least one of *)
(* the five options, the increment is chosen by the precedence version,    *)
(* auto, major, patch, minor, and unreachable!() is never reached.         *)
(***************************************************************************)
C10_BumpPrecedence ==
    /\ pc # "panicked"
    /\ pc \in {"bump", "create_version"} =>
          matches.version.some \/ matches.flags # {}
    /\ pc = "create_version" =>
          LET f == matches.flags
          IN  /\ matches.version.some => increment = Manual(matches.version.val)
              /\ ~matches.version.some /\ "auto" \in f => increment = Auto
              /\ ~matches.version.some /\ f \cap {"auto"} = {} /\ "major" \in f
                    => increment = Major
              /\ ~matches.version.some /\ f \cap {"auto", "major"} = {} /\ "patch" \in f
                    => increment = Patch
              /\ ~matches.version.some /\ f = {"minor"} => increment = Minor

C10_Witness ==
    /\ pc = "create_version"
    /\ ~matches.version.some
    /\ matches.flags = {"patch", "minor"}
    /\ increment = Patch

====
